---- MODULE Spec2Model ----
(***************************************************************************)
(* The chess engine of main.py: the board, the pseudo-legal move           *)
(* generator, the material evaluator, minimax with alpha-beta pruning and  *)
(* the play_game loop.  minimax is modelled frame by frame: the call stack *)
(* is a sequence of frames, one step per call and one per return, and the  *)
(* board lists live in an object store so that copy.deepcopy and the       *)
(* in-place make_move keep their Python meaning.                           *)
(***************************************************************************)
EXTENDS Integers, Sequences, FiniteSets, TLC

VARIABLES
    heap,           \* the board objects; heap[1] is play_game's `board`
    is_white_turn,  \* play_game's is_white_turn
    turn,           \* play_game's loop counter
    pc,             \* "idle" | "search" | "returned" | "over"
    stack,          \* the frames of minimax, outermost first
    call,           \* the arguments of the outermost minimax call
    result,         \* what the outermost minimax call returned
    generated,      \* generate_moves calls made by the current search
    applied         \* make_move calls made by the current search

vars == <<heap, is_white_turn, turn, pc, stack, call, result, generated, applied>>

----------------------------------------------------------------------------
(* Bounds and program constants *)

\* play_game turns explored by the model (the loop itself runs Turns times)
MaxTurn == 1

\* range(50) in play_game
Turns == 50

\* the depth play_game searches to
SearchDepth == 3

\* the board is 8 x 8
Size == 8

\* float('inf'): above every material sum (at most 39 a side)
Inf == 1000

\* Python's None
None == <<>>

Coord == 0 .. (Size - 1)

----------------------------------------------------------------------------
(* Pieces *)

WhitePieces == {"P", "R", "N", "B", "Q", "K"}
BlackPieces == {"p", "r", "n", "b", "q", "k"}

isupper(piece) == piece \in WhitePieces
islower(piece) == piece \in BlackPieces

upper(piece) ==
    CASE piece = "p" -> "P" [] piece = "r" -> "R" [] piece = "n" -> "N"
      [] piece = "b" -> "B" [] piece = "q" -> "Q" [] piece = "k" -> "K"
      [] OTHER -> piece

----------------------------------------------------------------------------
(* Boards *)

Row(r) == [y \in Coord |-> r[y + 1]]

initialize_board ==
    LET rows == <<
            Row(<<"r", "n", "b", "q", "k", "b", "n", "r">>),
            Row(<<"p", "p", "p", "p", "p", "p", "p", "p">>),
            Row(<<".", ".", ".", ".", ".", ".", ".", ".">>),
            Row(<<".", ".", ".", ".", ".", ".", ".", ".">>),
            Row(<<".", ".", ".", ".", ".", ".", ".", ".">>),
            Row(<<".", ".", ".", ".", ".", ".", ".", ".">>),
            Row(<<"P", "P", "P", "P", "P", "P", "P", "P">>),
            Row(<<"R", "N", "B", "Q", "K", "B", "N", "R">>) >>
    IN [x \in Coord |-> rows[x + 1]]

is_in_bounds(x, y) == 0 <= x /\ x < Size /\ 0 <= y /\ y < Size

----------------------------------------------------------------------------
(* Move generation *)

PawnWhiteDirs == << <<-1, 0>>, <<-1, -1>>, <<-1, 1>> >>
PawnBlackDirs == << <<1, 0>>, <<1, -1>>, <<1, 1>> >>
RookDirs == << <<-1, 0>>, <<1, 0>>, <<0, -1>>, <<0, 1>> >>
KnightDirs == << <<-2, -1>>, <<-2, 1>>, <<-1, -2>>, <<-1, 2>>,
                 <<2, -1>>, <<2, 1>>, <<1, -2>>, <<1, 2>> >>
BishopDirs == << <<-1, -1>>, <<-1, 1>>, <<1, -1>>, <<1, 1>> >>
QueenDirs == RookDirs \o BishopDirs

directions(piece) ==
    CASE piece = "P" -> PawnWhiteDirs
      [] piece = "p" -> PawnBlackDirs
      [] piece \in {"R", "r"} -> RookDirs
      [] piece \in {"N", "n"} -> KnightDirs
      [] piece \in {"B", "b"} -> BishopDirs
      [] piece \in {"Q", "q", "K", "k"} -> QueenDirs
      [] OTHER -> <<>>

\* the test without its colour half: every square may be entered
may_enter_any(target, piece) == TRUE

\* line 58: the target square may be entered
may_enter(target, piece) == target = "." \/ islower(target) # islower(piece)

\* lines 57-65: the while loop along one direction, from (nx, ny) on
RECURSIVE walk(_, _, _, _, _, _, _, _)
walk(board, x, y, piece, dx, dy, nx, ny) ==
    IF ~is_in_bounds(nx, ny) THEN <<>>
    ELSE LET target == board[nx][ny]
             here == IF may_enter(target, piece)
                     THEN << << <<x, y>>, <<nx, ny>> >> >>
                     ELSE <<>>
         IN  IF target # "." THEN here
             ELSE IF upper(piece) \in {"N", "K", "P"} THEN here
             ELSE here \o walk(board, x, y, piece, dx, dy, nx + dx, ny + dy)

\* lines 55-65: the for loop over the piece's directions, from the k-th on
RECURSIVE piece_moves_from(_, _, _, _, _)
piece_moves_from(board, x, y, piece, k) ==
    LET dirs == directions(piece)
    IN  IF k > Len(dirs) THEN <<>>
        ELSE walk(board, x, y, piece, dirs[k][1], dirs[k][2],
                  x + dirs[k][1], y + dirs[k][2])
             \o piece_moves_from(board, x, y, piece, k + 1)

get_piece_moves(board, x, y, piece) == piece_moves_from(board, x, y, piece, 1)

\* lines 31-34: the inner loop of the scan, row x from column y on
RECURSIVE moves_from_column(_, _, _, _)
moves_from_column(board, is_white, x, y) ==
    IF y >= Size THEN <<>>
    ELSE LET piece == board[x][y]
         IN  (IF (is_white /\ isupper(piece)) \/ (~is_white /\ islower(piece))
              THEN get_piece_moves(board, x, y, piece)
              ELSE <<>>)
             \o moves_from_column(board, is_white, x, y + 1)

\* lines 30-34: the outer loop of the scan, from row x on
RECURSIVE moves_from_row(_, _, _)
moves_from_row(board, is_white, x) ==
    IF x >= Size THEN <<>>
    ELSE moves_from_column(board, is_white, x, 0)
         \o moves_from_row(board, is_white, x + 1)

generate_moves(board, is_white) == moves_from_row(board, is_white, 0)

----------------------------------------------------------------------------
(* Evaluation *)

piece_values(piece) ==
    CASE piece = "p" -> 1 [] piece = "n" -> 3 [] piece = "b" -> 3
      [] piece = "r" -> 5 [] piece = "q" -> 9 [] piece = "k" -> 0
      [] piece = "P" -> -1 [] piece = "N" -> -3 [] piece = "B" -> -3
      [] piece = "R" -> -5 [] piece = "Q" -> -9 [] piece = "K" -> 0
      [] OTHER -> 0

\* lines 76-77: the inner loop, over the pieces of a row from column y on
RECURSIVE row_score(_, _)
row_score(row, y) ==
    IF y >= Size THEN 0
    ELSE piece_values(row[y]) + row_score(row, y + 1)

\* lines 75-77: the outer loop, over the rows from row x on
RECURSIVE score_from(_, _)
score_from(board, x) ==
    IF x >= Size THEN 0
    ELSE row_score(board[x], 0) + score_from(board, x + 1)

evaluate_board(board) == score_from(board, 0)

----------------------------------------------------------------------------
(* make_move and copy.deepcopy *)

make_move(board, move) ==
    LET x1 == move[1][1]
        y1 == move[1][2]
        x2 == move[2][1]
        y2 == move[2][2]
        b1 == [board EXCEPT ![x2][y2] = board[x1][y1]]
    IN  [b1 EXCEPT ![x1][y1] = "."]

\* new_board = board: the same object under a second name
alias(h, ref) == [heap |-> h, ref |-> ref]

\* new_board = copy.deepcopy(board): a fresh object with the same squares
deepcopy(h, ref) == [heap |-> Append(h, h[ref]), ref |-> Len(h) + 1]

----------------------------------------------------------------------------
(* minimax, one frame per call *)

max(a, b) == IF a >= b THEN a ELSE b
min(a, b) == IF a <= b THEN a ELSE b

\* the test one level late: if depth < 0
below_depth_zero(depth) == depth < 0

\* line 82: if depth == 0
at_depth_zero(depth) == depth = 0

\* the recursive call made with depth itself
same_depth(depth) == depth

\* lines 91, 104: the recursive call is made with depth - 1
child_depth(depth) == depth - 1

\* lines 92, 105: evaluation > max_eval, evaluation < min_eval
improves(is_white, evaluation, best) ==
    IF is_white THEN evaluation > best ELSE evaluation < best

\* the cut-off test with its operands exchanged: alpha <= beta
cutoff_exchanged(alpha, beta) == alpha <= beta

\* lines 96, 109: if beta <= alpha: break
cutoff(alpha, beta) == beta <= alpha

\* lines 82-87, 100: a call of minimax up to its first loop iteration.
\* best is max_eval for White and min_eval for Black.
minimax_enter(h, ref, depth, is_white, alpha, beta) ==
    IF at_depth_zero(depth)
    THEN [board |-> ref, depth |-> depth, is_white |-> is_white,
          alpha |-> alpha, beta |-> beta, moves |-> <<>>, i |-> 1,
          best |-> evaluate_board(h[ref]), best_move |-> None, pc |-> "eval"]
    ELSE LET moves == generate_moves(h[ref], is_white)
         IN  [board |-> ref, depth |-> depth, is_white |-> is_white,
              alpha |-> alpha, beta |-> beta, moves |-> moves, i |-> 1,
              best |-> IF is_white THEN -Inf ELSE Inf, best_move |-> None,
              pc |-> IF moves = <<>> THEN "return" ELSE "loop"]

\* lines 83, 98, 111: the pair a finished frame returns
returns(f) == <<f.best, f.best_move>>

\* lines 92-97, 105-110: the rest of the loop body once the recursive call
\* for f.moves[f.i] has returned `evaluation`
loop_body(f, evaluation) ==
    LET better == improves(f.is_white, evaluation, f.best)
        alpha == IF f.is_white THEN max(f.alpha, evaluation) ELSE f.alpha
        beta == IF f.is_white THEN f.beta ELSE min(f.beta, evaluation)
    IN  [f EXCEPT !.best = IF better THEN evaluation ELSE @,
                  !.best_move = IF better THEN f.moves[f.i] ELSE @,
                  !.alpha = alpha,
                  !.beta = beta,
                  !.i = @ + 1,
                  !.pc = IF cutoff(alpha, beta) \/ f.i = Len(f.moves)
                         THEN "return" ELSE "loop"]

Top == stack[Len(stack)]

NoCall == [by |-> "nobody", depth |-> 0, is_white |-> TRUE]

\* the outermost call minimax(board, depth, is_white, -inf, +inf)
Enter(by, depth, is_white) ==
    /\ pc = "idle"
    /\ pc' = "search"
    /\ call' = [by |-> by, depth |-> depth, is_white |-> is_white]
    /\ stack' = <<minimax_enter(heap, 1, depth, is_white, -Inf, Inf)>>
    /\ generated' = IF at_depth_zero(depth) THEN 0 ELSE 1
    /\ applied' = 0
    /\ result' = None
    /\ UNCHANGED <<heap, is_white_turn, turn>>

\* line 126: play_game searches for the side to move
PlayTurn ==
    /\ turn < Turns
    /\ turn < MaxTurn
    /\ Enter("play_game", SearchDepth, is_white_turn)

\* minimax called directly, with any depth and either side
CallMinimax(depth, is_white) == Enter("caller", depth, is_white)

\* lines 88-91, 101-104: copy the board, make the move on the copy, recurse
Descend ==
    /\ pc = "search"
    /\ Top.pc = "loop"
    /\ LET f == Top
           copy == deepcopy(heap, f.board)
           h == [copy.heap EXCEPT ![copy.ref] = make_move(@, f.moves[f.i])]
           depth == child_depth(f.depth)
       IN  /\ heap' = h
           /\ stack' = Append(stack, minimax_enter(h, copy.ref, depth,
                                  ~f.is_white, f.alpha, f.beta))
           /\ generated' = IF at_depth_zero(depth) THEN generated
                           ELSE generated + 1
    /\ applied' = applied + 1
    /\ UNCHANGED <<is_white_turn, turn, pc, call, result>>

\* a recursive call returns to the loop of its caller
Return ==
    /\ pc = "search"
    /\ Len(stack) > 1
    /\ Top.pc \in {"eval", "return"}
    /\ LET n == Len(stack)
           parent == stack[n - 1]
       IN  /\ stack' = [SubSeq(stack, 1, n - 1) EXCEPT
                           ![n - 1] = loop_body(parent, returns(Top)[1])]
           /\ heap' = SubSeq(heap, 1, parent.board)
    /\ UNCHANGED <<is_white_turn, turn, pc, call, result, generated, applied>>

\* the outermost call returns
RootReturn ==
    /\ pc = "search"
    /\ Len(stack) = 1
    /\ Top.pc \in {"eval", "return"}
    /\ result' = returns(Top)
    /\ stack' = <<>>
    /\ pc' = "returned"
    /\ heap' = SubSeq(heap, 1, 1)
    /\ UNCHANGED <<is_white_turn, turn, call, generated, applied>>

\* lines 127-132: play_game makes the best move or stops
Decide ==
    /\ pc = "returned"
    /\ call.by = "play_game"
    /\ IF result[2] # None
       THEN /\ heap' = [heap EXCEPT ![1] = make_move(@, result[2])]
            /\ is_white_turn' = ~is_white_turn
            /\ turn' = turn + 1
            /\ pc' = IF turn + 1 < Turns THEN "idle" ELSE "over"
       ELSE /\ pc' = "over"
            /\ UNCHANGED <<heap, is_white_turn, turn>>
    /\ call' = NoCall
    /\ result' = None
    /\ UNCHANGED <<stack, generated, applied>>

\* the direct caller takes the result
Resume ==
    /\ pc = "returned"
    /\ call.by = "caller"
    /\ pc' = "idle"
    /\ call' = NoCall
    /\ result' = None
    /\ UNCHANGED <<heap, is_white_turn, turn, stack, generated, applied>>

----------------------------------------------------------------------------
(* Positions the engine is given *)

EmptyBoard == [x \in Coord |-> [y \in Coord |-> "."]]

\* a board with the given pieces: a sequence of <<x, y, piece>>
RECURSIVE place(_, _)
place(board, pieces) ==
    IF pieces = <<>> THEN board
    ELSE place([board EXCEPT ![pieces[1][1]][pieces[1][2]] = pieces[1][3]],
               Tail(pieces))

\* positions of a late game, either side to move
LateBoards == {
    place(EmptyBoard, << <<4, 3, "P">>, <<3, 4, "p">> >>),
    place(EmptyBoard, << <<6, 1, "P">>, <<4, 1, "p">> >>),
    place(EmptyBoard, << <<6, 1, "P">>, <<4, 0, "n">> >>),
    place(EmptyBoard, << <<6, 0, "P">>, <<0, 0, "r">> >>),
    place(EmptyBoard, << <<7, 4, "K">>, <<6, 4, "P">>,
                         <<0, 4, "k">>, <<1, 4, "p">> >>) }

\* lines 121-122: the starting position with White to move, and the late
\* positions
StartPositions ==
    {<<initialize_board, TRUE>>} \cup (LateBoards \X BOOLEAN)

Init ==
    /\ \E p \in StartPositions :
           /\ heap = <<p[1]>>
           /\ is_white_turn = p[2]
    /\ turn = 0
    /\ pc = "idle"
    /\ stack = <<>>
    /\ call = NoCall
    /\ result = None
    /\ generated = 0
    /\ applied = 0

Next ==
    \/ PlayTurn
    \/ \E depth \in 0 .. SearchDepth, is_white \in BOOLEAN :
           CallMinimax(depth, is_white)
    \/ Descend
    \/ Return
    \/ RootReturn
    \/ Decide
    \/ Resume

Spec == Init /\ [][Next]_vars

----------------------------------------------------------------------------
(* C1: alpha-beta against plain minimax *)

\* the largest and the smallest of a non-empty set of scores
Largest(S) == CHOOSE v \in S : \A w \in S : w <= v
Smallest(S) == CHOOSE v \in S : \A w \in S : v <= w

\* minimax without pruning: the same generator, evaluator and terminal rule,
\* every move of every node searched
RECURSIVE plain_minimax(_, _, _)
plain_minimax(board, depth, is_white) ==
    IF depth = 0 THEN evaluate_board(board)
    ELSE LET moves == generate_moves(board, is_white)
             children == {make_move(board, moves[k]) : k \in 1 .. Len(moves)}
             scores == {plain_minimax(b, depth - 1, ~is_white) : b \in children}
         IN  IF is_white
             THEN (IF scores = {} THEN -Inf ELSE Largest(scores))
             ELSE (IF scores = {} THEN Inf ELSE Smallest(scores))

\* the number of make_move calls of the search without pruning
RECURSIVE plain_applied(_, _, _), plain_applied_fold(_, _, _, _, _)
plain_applied(board, depth, is_white) ==
    IF depth = 0 THEN 0
    ELSE plain_applied_fold(board, depth, is_white,
                            generate_moves(board, is_white), 1)

plain_applied_fold(board, depth, is_white, moves, k) ==
    IF k > Len(moves) THEN 0
    ELSE 1 + plain_applied(make_move(board, moves[k]), depth - 1, ~is_white)
           + plain_applied_fold(board, depth, is_white, moves, k + 1)

\* C1: for any position, either side and any depth from 1 to 3, the score
\* minimax returns for the full window (-inf, +inf) is the score of minimax
\* without pruning.
C1_AlphaBetaEqualsMinimax ==
    (pc = "returned" /\ call.depth >= 1) =>
        result[1] = plain_minimax(heap[1], call.depth, call.is_white)

\* a search to depth 3 that returned after skipping branches
C1_Witness ==
    /\ pc = "returned"
    /\ call.depth = SearchDepth
    /\ heap[1] # initialize_board
    /\ applied < plain_applied(heap[1], call.depth, call.is_white)
    /\ result[1] = plain_minimax(heap[1], call.depth, call.is_white)

----------------------------------------------------------------------------
(* C2, C3: the move and the score returned *)

finite(score) == -Inf < score /\ score < Inf

is_member(move, moves) == \E k \in 1 .. Len(moves) : moves[k] = move

\* C2: when the side to move has a generated move and depth >= 1, minimax
\* returns one of the generated moves, never None, with a finite score; so
\* play_game reports "no legal moves" only for a side without moves.
C2_ReturnsGeneratedMove ==
    (/\ pc = "returned"
     /\ call.depth >= 1
     /\ generate_moves(heap[1], call.is_white) # <<>>) =>
        /\ result[2] # None
        /\ is_member(result[2], generate_moves(heap[1], call.is_white))
        /\ finite(result[1])

\* C3: a call with depth > 0 for a side without pieces, hence without
\* moves, returns the static evaluation of the position and None, not an
\* infinite sentinel.  Stated of every finished frame of the search and of
\* the outermost call.
C3_NoMovesReturnsEvaluation ==
    /\ \A n \in 1 .. Len(stack) :
           LET f == stack[n]
           IN  (f.depth > 0 /\ f.pc = "return" /\ f.moves = <<>>) =>
                   returns(f) = <<evaluate_board(heap[f.board]), None>>
    /\ (/\ pc = "returned"
        /\ call.depth > 0
        /\ generate_moves(heap[1], call.is_white) = <<>>) =>
           result = <<evaluate_board(heap[1]), None>>

----------------------------------------------------------------------------
(* C4: the move made for a branch is taken back when the branch returns *)

\* the position a frame searches: its board and its side to move
position(h, f) == <<h[f.board], f.is_white>>

\* C4: applying a generated move and undoing it gives back the position.
\* main.py applies the move to a deep copy and undoes it by returning to the
\* caller's own board: the step that applies a move hands the callee the
\* position after the move and leaves the position of every caller as it
\* was, and so does the step that returns; a captured piece is therefore
\* back on its square.
C4_ApplyUndoRestoresPosition ==
    [][(pc = "search" /\ pc' = "search") =>
           LET n == Len(stack)
           IN  /\ Len(stack') = n + 1 =>
                      /\ position(heap', stack'[n + 1]) =
                             <<make_move(heap[Top.board], Top.moves[Top.i]),
                               ~Top.is_white>>
                      /\ \A k \in 1 .. n :
                             position(heap', stack'[k]) = position(heap, stack[k])
               /\ Len(stack') = n - 1 =>
                      \A k \in 1 .. n - 1 :
                          position(heap', stack'[k]) = position(heap, stack[k])
      ]_vars

\* a frame whose last branch made a capture and has returned: the captured
\* piece and the capturing piece stand where they stood
C4_Witness ==
    /\ pc = "search"
    /\ Top.pc \in {"loop", "return"}
    /\ Top.i > 1
    /\ LET move == Top.moves[Top.i - 1]
           board == heap[Top.board]
       IN  /\ board[move[2][1]][move[2][2]] # "."
           /\ board[move[1][1]][move[1][2]] # "."
           /\ Top.moves = generate_moves(board, Top.is_white)

----------------------------------------------------------------------------
(* C5: the moves of the starting position *)

\* C5: the generator yields exactly 20 moves for White on the starting
\* position and exactly 20 for Black on the same board.
C5_TwentyOpeningMoves ==
    heap[1] = initialize_board =>
        /\ Len(generate_moves(heap[1], TRUE)) = 20
        /\ Len(generate_moves(heap[1], FALSE)) = 20

----------------------------------------------------------------------------
(* C6: the evaluator's values and sign *)

material_value(piece) ==
    CASE upper(piece) = "P" -> 1 [] upper(piece) = "N" -> 3
      [] upper(piece) = "B" -> 3 [] upper(piece) = "R" -> 5
      [] upper(piece) = "Q" -> 9 [] OTHER -> 0

sign(piece) == IF isupper(piece) THEN 1 ELSE IF islower(piece) THEN -1 ELSE 0

RECURSIVE material_from(_, _)
material_from(board, k) ==
    IF k >= Size * Size THEN 0
    ELSE LET piece == board[k \div Size][k % Size]
         IN  sign(piece) * material_value(piece) + material_from(board, k + 1)

\* C6: the evaluator returns the sum over the occupied squares of
\* sign(color) * material_value(kind), White positive and Black negative,
\* with Pawn 1, Knight 3, Bishop 3, Rook 5, Queen 9, King 0; an empty board
\* scores 0.
C6_WhiteMaterialCountsPositive ==
    \A n \in 1 .. Len(heap) : evaluate_board(heap[n]) = material_from(heap[n], 0)

----------------------------------------------------------------------------
(* C7: ties at the root *)

\* the score of the k-th root move under minimax without pruning
move_score(board, depth, is_white, moves, k) ==
    plain_minimax(make_move(board, moves[k]), depth - 1, ~is_white)

\* C7: of the root moves that yield the best score, minimax returns the
\* first in the generator's order.
C7_FirstOfEqualBestMoves ==
    (pc = "returned" /\ call.depth >= 1) =>
        LET moves == generate_moves(heap[1], call.is_white)
            best == plain_minimax(heap[1], call.depth, call.is_white)
        IN  \A k \in 1 .. Len(moves) :
                (/\ move_score(heap[1], call.depth, call.is_white, moves, k) = best
                 /\ \A j \in 1 .. k - 1 :
                        move_score(heap[1], call.depth, call.is_white, moves, j) # best)
                    => result[2] = moves[k]

----------------------------------------------------------------------------
(* C8: make_move called with a move the generator did not produce *)

\* make_move calls explored by SpecMakeMove
MaxCalls == 2

\* the squares the caller's moves run between
CallerSquares == {<<6, 1>>, <<5, 1>>, <<4, 1>>, <<3, 4>>, <<0, 0>>}

CallerMoves == CallerSquares \X CallerSquares

\* lines 113-117: make_move(board, move) called on play_game's board
CallMakeMove(move) ==
    /\ pc = "idle"
    /\ applied < MaxCalls
    /\ heap' = [heap EXCEPT ![1] = make_move(@, move)]
    /\ applied' = applied + 1
    /\ UNCHANGED <<is_white_turn, turn, pc, stack, call, result, generated>>

NextMakeMove == \E move \in CallerMoves : CallMakeMove(move)

SpecMakeMove == Init /\ [][NextMakeMove]_vars

\* the from-square is empty or holds a piece of the side not to move
wrong_from(board, move, white_to_move) ==
    LET piece == board[move[1][1]][move[1][2]]
    IN  \/ piece = "."
        \/ white_to_move /\ islower(piece)
        \/ ~white_to_move /\ isupper(piece)

\* C8: a move whose from-square is empty or holds a piece of the side not
\* to move is rejected and leaves the board as it was.
C8_WrongMoveLeavesBoard ==
    [][\A move \in CallerMoves :
           (CallMakeMove(move) /\ wrong_from(heap[1], move, is_white_turn))
               => heap' = heap
      ]_vars

----------------------------------------------------------------------------
(* C9: termination *)

\* the search steps are taken as long as one is possible: minimax runs to
\* its return, nothing suspends it
FairSpec == Spec /\ WF_vars(Descend \/ Return \/ RootReturn)

\* every frame sits at the depth its level gives it, never below 0, and a
\* frame at depth 0 or without moves is not in its loop
DepthControlsRecursion ==
    pc = "search" =>
        /\ Len(stack) <= call.depth + 1
        /\ \A n \in 1 .. Len(stack) :
               LET f == stack[n]
               IN  /\ f.depth = call.depth - (n - 1)
                   /\ f.depth >= 0
                   /\ f.i \in 1 .. Len(f.moves) + 1
                   /\ (f.depth = 0 \/ f.moves = <<>>) => f.pc # "loop"
                   /\ n < Len(stack) => f.pc = "loop"

\* C9: for every position and every depth >= 0 the search terminates: each
\* recursive call is made with depth - 1, recursion stops at depth 0 or when
\* no move is generated, and nothing but the depth ends it.
C9_SearchTerminates ==
    /\ []DepthControlsRecursion
    /\ (pc = "search") ~> (pc = "returned")

\* a search to the full depth has returned after recursing
C9_Witness ==
    /\ pc = "returned"
    /\ call.depth = SearchDepth
    /\ applied > 0

----------------------------------------------------------------------------
(* C10: depth 0 *)

\* C10: minimax(p, 0, alpha, beta, side) returns (evaluate_board(p), None)
\* for any p, without generating or making a move.  Stated of the outermost
\* call, whose window is full, and of every frame at depth 0, whose window
\* is whatever the search has narrowed it to.
C10_DepthZeroReturnsEvaluation ==
    /\ \A n \in 1 .. Len(stack) :
           LET f == stack[n]
           IN  f.depth = 0 =>
                   /\ f.pc = "eval"
                   /\ f.moves = <<>>
                   /\ returns(f) = <<evaluate_board(heap[f.board]), None>>
    /\ (pc = "returned" /\ call.depth = 0) =>
           /\ result = <<evaluate_board(heap[1]), None>>
           /\ generated = 0
           /\ applied = 0

\* a call with depth 0 has returned for a side that has moves
C10_Witness ==
    /\ pc = "returned"
    /\ call.depth = 0
    /\ generate_moves(heap[1], call.is_white) # <<>>
    /\ result = <<evaluate_board(heap[1]), None>>

----------------------------------------------------------------------------
(* C11: what a search leaves behind in its caller *)

\* every frame searches a board object of its own, the board of a callee is
\* the caller's board after the caller's current move, and the move list of
\* a frame is still the list of the position it holds
SiblingsFromSamePosition ==
    pc = "search" =>
        /\ Len(heap) = Len(stack)
        /\ stack[1].board = 1
        /\ \A n \in 1 .. Len(stack) :
               LET f == stack[n]
               IN  /\ \A m \in 1 .. Len(stack) : m # n => stack[m].board # f.board
                   /\ f.depth > 0 =>
                          f.moves = generate_moves(heap[f.board], f.is_white)
                   /\ n < Len(stack) =>
                          position(heap, stack[n + 1]) =
                              <<make_move(heap[f.board], f.moves[f.i]),
                                ~f.is_white>>

\* C11: from the call of minimax to its return, by the end of the move list
\* or by a cut-off, the caller's board and side to move stay what they were
\* at the call; inside a node every move is made on a private copy, so that
\* after the recursive call returns the pruning test and the next sibling
\* find the node's position as it was.
C11_CallerPositionUnchanged ==
    /\ []SiblingsFromSamePosition
    /\ [][(pc = "search" \/ pc' = "search") =>
              /\ heap'[1] = heap[1]
              /\ is_white_turn' = is_white_turn
              /\ (pc' = "search" /\ Len(stack') <= Len(stack)) =>
                     LET f == stack'[Len(stack')]
                     IN  /\ heap'[f.board] = heap[f.board]
                         /\ Len(heap') = Len(stack')
         ]_vars

\* a callee that leaves its loop by a cut-off, siblings unexplored, after a
\* branch of it made a capture
C11_Witness ==
    /\ pc = "search"
    /\ Len(stack) > 1
    /\ Top.pc = "return"
    /\ Top.i > 1
    /\ Top.i <= Len(Top.moves)
    /\ LET move == Top.moves[Top.i - 1]
       IN  heap[Top.board][move[2][1]][move[2][2]] # "."
    /\ heap[Top.board] =
           make_move(heap[stack[Len(stack) - 1].board],
                     stack[Len(stack) - 1].moves[stack[Len(stack) - 1].i])

----------------------------------------------------------------------------
(* generate_moves called on its own *)

\* moves made one after the other by SpecGenerate
MaxPlies == 1

\* a queen, a rook and a bishop in the open with friends and opponents on
\* their lines
SliderBoard ==
    place(EmptyBoard, << <<4, 3, "Q">>, <<5, 3, "P">>, <<4, 6, "R">>,
                         <<7, 0, "B">>, <<2, 1, "p">>, <<1, 3, "b">>,
                         <<0, 7, "r">>, <<4, 0, "q">> >>)

\* pawns head-on, pawns with an opponent on a diagonal, pawns on the edge
PawnBoard ==
    place(EmptyBoard, << <<4, 1, "P">>, <<3, 1, "p">>, <<3, 2, "p">>,
                         <<6, 7, "P">>, <<1, 0, "p">>, <<4, 5, "P">> >>)

GenerateBoards == {initialize_board, SliderBoard, PawnBoard} \cup LateBoards

InitGenerate ==
    /\ \E board \in GenerateBoards : heap = <<board>>
    /\ is_white_turn \in BOOLEAN
    /\ turn = 0
    /\ pc = "idle"
    /\ stack = <<>>
    /\ call = NoCall
    /\ result = None
    /\ generated = 0
    /\ applied = 0

\* lines 27-35: generate_moves(board, is_white) for the side to move
CallGenerateMoves ==
    /\ pc = "idle"
    /\ pc' = "generated"
    /\ result' = generate_moves(heap[1], is_white_turn)
    /\ generated' = generated + 1
    /\ UNCHANGED <<heap, is_white_turn, turn, stack, call, applied>>

\* lines 128, 132: one of the generated moves is made and the turn passes
PlayGenerated(k) ==
    /\ pc = "generated"
    /\ applied < MaxPlies
    /\ k \in 1 .. Len(result)
    /\ heap' = [heap EXCEPT ![1] = make_move(@, result[k])]
    /\ is_white_turn' = ~is_white_turn
    /\ applied' = applied + 1
    /\ pc' = "idle"
    /\ result' = None
    /\ UNCHANGED <<turn, stack, call, generated>>

NextGenerate ==
    \/ CallGenerateMoves
    \/ \E k \in 1 .. Len(result) : PlayGenerated(k)

SpecGenerate == InitGenerate /\ [][NextGenerate]_vars

----------------------------------------------------------------------------
(* C12: the moves of a pawn *)

\* the piece belongs to the side to move
own(piece, is_white) == IF is_white THEN isupper(piece) ELSE islower(piece)

\* the square holds a piece of the other colour than `piece`
opposing(target, piece) == target # "." /\ isupper(target) # isupper(piece)

\* toward rank index 0 for White, toward rank index 7 for Black
forward(piece) == IF isupper(piece) THEN -1 ELSE 1

\* the squares the generated moves lead to from a square, and their number
targets_from(moves, from) ==
    {moves[k][2] : k \in {j \in 1 .. Len(moves) : moves[j][1] = from}}

count_from(moves, from) ==
    Cardinality({j \in 1 .. Len(moves) : moves[j][1] = from})

\* the forward square if it is on the board and empty, each forward diagonal
\* square if it is on the board and holds an opposing piece
pawn_targets(board, x, y) ==
    LET piece == board[x][y]
        nx == x + forward(piece)
    IN  {<<nx, ny>> : ny \in {n \in {y - 1, y, y + 1} :
            /\ is_in_bounds(nx, n)
            /\ n = y => board[nx][n] = "."
            /\ n # y => opposing(board[nx][n], piece)}}

\* C12: for every pawn of the side to move the generator yields exactly the
\* one-step forward move iff that square is on the board and empty, and each
\* forward-diagonal move iff that square is on the board and holds an
\* opposing piece: no diagonal move onto an empty square, no capture
\* straight ahead.
C12_PawnMovesExactly ==
    pc = "generated" =>
        \A x \in Coord, y \in Coord :
            LET piece == heap[1][x][y]
            IN  (upper(piece) = "P" /\ own(piece, is_white_turn)) =>
                    /\ targets_from(result, <<x, y>>) = pawn_targets(heap[1], x, y)
                    /\ count_from(result, <<x, y>>) =
                           Cardinality(pawn_targets(heap[1], x, y))

----------------------------------------------------------------------------
(* C13: the moves of a rook, a bishop and a queen *)

\* the direction vectors of a sliding piece: along ranks and files for the
\* rook, along diagonals for the bishop, both for the queen
slider_vectors(piece) ==
    LET steps == ({-1, 0, 1} \X {-1, 0, 1}) \ {<<0, 0>>}
    IN  CASE upper(piece) = "R" -> {d \in steps : d[1] = 0 \/ d[2] = 0}
          [] upper(piece) = "B" -> {d \in steps : d[1] # 0 /\ d[2] # 0}
          [] upper(piece) = "Q" -> steps
          [] OTHER -> {}

\* the k-th square from (x, y) along d
square_at(x, y, d, k) == <<x + k * d[1], y + k * d[2]>>

\* the k-th square along d is off the board or occupied
stops_at(board, x, y, d, k) ==
    LET sq == square_at(x, y, d, k)
    IN  ~is_in_bounds(sq[1], sq[2]) \/ board[sq[1]][sq[2]] # "."

\* the distance of the first occupied or off-board square along d
first_stop(board, x, y, d) ==
    CHOOSE k \in 1 .. Size :
        /\ stops_at(board, x, y, d, k)
        /\ \A j \in 1 .. k - 1 : ~stops_at(board, x, y, d, j)

\* every empty square up to the first stop, and the first stop itself when
\* it holds an opposing piece
ray_targets(board, x, y, d) ==
    LET s == first_stop(board, x, y, d)
        sq == square_at(x, y, d, s)
    IN  {square_at(x, y, d, k) : k \in 1 .. s - 1}
        \cup (IF is_in_bounds(sq[1], sq[2])
                 /\ opposing(board[sq[1]][sq[2]], board[x][y])
              THEN {sq} ELSE {})

\* C13: for every rook, bishop and queen of the side to move and each of its
\* direction vectors the generator yields every empty square up to the first
\* occupied or off-board square, that first occupied square exactly when it
\* holds an opposing piece, and nothing beyond it; no generated move lands
\* on a friendly-occupied or off-board square.
C13_SlidersWalkToFirstStop ==
    pc = "generated" =>
        /\ \A x \in Coord, y \in Coord :
               LET piece == heap[1][x][y]
               IN  (upper(piece) \in {"R", "B", "Q"} /\ own(piece, is_white_turn)) =>
                       \A d \in slider_vectors(piece) : \A k \in 1 .. Size :
                           is_member(<< <<x, y>>, square_at(x, y, d, k) >>, result)
                               <=> square_at(x, y, d, k) \in ray_targets(heap[1], x, y, d)
        /\ \A k \in 1 .. Len(result) :
               LET from == result[k][1]
                   to == result[k][2]
               IN  /\ is_in_bounds(to[1], to[2])
                   /\ LET target == heap[1][to[1]][to[2]]
                      IN  target = "." \/ opposing(target, heap[1][from[1]][from[2]])

\* the moves of a side were generated with a slider that captures at
\* distance 3 or more along one vector, is stopped at once by a friend along
\* another, and runs to the edge of the board along a third
C13_Witness ==
    /\ pc = "generated"
    /\ \E x \in Coord, y \in Coord :
           LET piece == heap[1][x][y]
               board == heap[1]
           IN  /\ upper(piece) \in {"R", "B", "Q"}
               /\ own(piece, is_white_turn)
               /\ \E d \in slider_vectors(piece) :
                      LET s == first_stop(board, x, y, d)
                          sq == square_at(x, y, d, s)
                      IN  /\ s >= 3
                          /\ is_in_bounds(sq[1], sq[2])
                          /\ is_member(<< <<x, y>>, sq >>, result)
                          /\ ~is_member(<< <<x, y>>, square_at(x, y, d, s + 1) >>, result)
               /\ \E d \in slider_vectors(piece) :
                      LET sq == square_at(x, y, d, 1)
                      IN  /\ first_stop(board, x, y, d) = 1
                          /\ is_in_bounds(sq[1], sq[2])
                          /\ ~is_member(<< <<x, y>>, sq >>, result)
               /\ \E d \in slider_vectors(piece) :
                      LET s == first_stop(board, x, y, d)
                          sq == square_at(x, y, d, s)
                      IN  /\ s >= 2
                          /\ ~is_in_bounds(sq[1], sq[2])
                          /\ is_member(<< <<x, y>>, square_at(x, y, d, s - 1) >>, result)

====
